---- MODULE Spec2Model ----
(***************************************************************************)
(* Model of src/main.py: the numeric literal extractor, the scale          *)
(* resolver, the table boundary detector, the contextual number extractor  *)
(* and the aggregator / selector.                                          *)
(*                                                                         *)
(* Texts are strings; Ch(t, p) is the character at the 1-based index p.    *)
(* Offsets kept in the program state (position, last_boundary, the table   *)
(* boundaries) are Python's 0-based offsets.                               *)
(*                                                                         *)
(* A float is modelled as an exact decimal [m |-> mantissa, e |-> exp],    *)
(* standing for m * 10^e, kept normalised (no trailing zero in m), so that *)
(* two decimals are equal exactly when the numbers are.  1e12 does not fit *)
(* a 32-bit mantissa; the exponent carries the scale.                      *)
(***************************************************************************)
EXTENDS Integers, Sequences, FiniteSets, TLC

VARIABLES
    text,              \* the page text handed to the extractor / resolver
    ntok,              \* number of fragments the text was assembled from
    pc,                \* position of the scan: input, ready, loop, done, resolved
    table_boundaries,  \* pending boundary offsets (main.py:81, popped at :100)
    current_scale,     \* main.py:82
    last_boundary,     \* main.py:83
    matches,           \* main.py:86, list(re.finditer(...))
    i,                 \* number of matches already processed (loop index, :88)
    numbers,           \* main.py:80, the records appended at :110
    scales,            \* history: current_scale in force when numbers[k] was made
    consumed,          \* history: [boundary, position] of every pop at :100
    factor,            \* result of extract_scale_factor(text) (scale resolver runs)
    page_num,          \* main.py:130, number of the page read last
    base_numbers,      \* main.py:124/134, list of <<value, page>>
    nlp_results,       \* main.py:125/139, insertion-ordered <<page, records>> items
    agg_pc,            \* build or done
    largest_base,      \* main.py:236
    largest_nlp,       \* main.py:237
    top_base,          \* rows of the base table, main.py:154
    top_nlp            \* rows of the NLP table, main.py:165

scan_vars == <<text, ntok, pc, table_boundaries, current_scale, last_boundary,
               matches, i, numbers, scales, consumed, factor>>
agg_vars == <<page_num, base_numbers, nlp_results, agg_pc, largest_base, largest_nlp,
              top_base, top_nlp>>
vars == <<scan_vars, agg_vars>>

\* Python's None, as the value of an unmatched group
None == "None"

\* Python's None, as the value a selector returns in place of a tuple
NoResult == <<>>

----------------------------------------------------------------------------
(* Characters and character classes of Python's re module *)

Ch(t, p) == SubSeq(t, p, p)

\* \d
Digits == {"0", "1", "2", "3", "4", "5", "6", "7", "8", "9"}

\* \s
Spaces == {" ", "\n", "\t", "\r", "\f"}

LowerLetters == <<"a", "b", "c", "d", "e", "f", "g", "h", "i", "j", "k", "l", "m",
                  "n", "o", "p", "q", "r", "s", "t", "u", "v", "w", "x", "y", "z">>
UpperLetters == <<"A", "B", "C", "D", "E", "F", "G", "H", "I", "J", "K", "L", "M",
                  "N", "O", "P", "Q", "R", "S", "T", "U", "V", "W", "X", "Y", "Z">>

\* \w
WordChars == {LowerLetters[k] : k \in 1..26} \cup {UpperLetters[k] : k \in 1..26}
             \cup Digits \cup {"_"}

\* str.lower() on one character
LowerCh(c) ==
    IF \E k \in 1..26 : UpperLetters[k] = c
    THEN LowerLetters[CHOOSE k \in 1..26 : UpperLetters[k] = c]
    ELSE c

\* str.lower()
RECURSIVE Lower(_)
Lower(t) == IF t = "" THEN "" ELSE LowerCh(Head(t)) \o Lower(Tail(t))

\* needle in hay (Python's substring test)
Contains(hay, needle) ==
    \E p \in 1..(Len(hay) - Len(needle) + 1) :
        SubSeq(hay, p, p + Len(needle) - 1) = needle

\* t[a:b] for 0 <= a, b (Python slice, 0-based, end exclusive)
Slice(t, a, b) == SubSeq(t, a + 1, IF b > Len(t) THEN Len(t) ELSE b)

\* End (index of the first character not taken) of a greedy run X* from p
RECURSIVE RunEnd(_, _, _)
RunEnd(t, p, S) ==
    IF p <= Len(t) /\ Ch(t, p) \in S THEN RunEnd(t, p + 1, S) ELSE p

StartsWithAt(t, p, w) == p + Len(w) - 1 <= Len(t) /\ SubSeq(t, p, p + Len(w) - 1) = w

----------------------------------------------------------------------------
(* Decimal numbers (Python floats) *)

RECURSIVE Norm(_)
Norm(d) ==
    IF d.m = 0 THEN [m |-> 0, e |-> 0]
    ELSE IF d.m % 10 = 0 THEN Norm([m |-> d.m \div 10, e |-> d.e + 1])
    ELSE d

Dec(mant, exp) == Norm([m |-> mant, e |-> exp])

One == Dec(1, 0)

\* a * b
Mul(a, b) == Norm([m |-> a.m * b.m, e |-> a.e + b.e])

RECURSIVE Pow10(_)
Pow10(n) == IF n = 0 THEN 1 ELSE 10 * Pow10(n - 1)

\* a < b
Less(a, b) ==
    LET lo == IF a.e < b.e THEN a.e ELSE b.e
    IN  a.m * Pow10(a.e - lo) < b.m * Pow10(b.e - lo)

DigitVal(c) == CHOOSE n \in 0..9 : Ch("0123456789", n + 1) = c

RECURSIVE DigitsValue(_, _)
DigitsValue(s, acc) ==
    IF s = "" THEN acc ELSE DigitsValue(Tail(s), 10 * acc + DigitVal(Head(s)))

\* s without its trailing zeros
RECURSIVE StripZeros(_)
StripZeros(s) ==
    IF s # "" /\ Ch(s, Len(s)) = "0" THEN StripZeros(SubSeq(s, 1, Len(s) - 1)) ELSE s

\* float(num.replace(',', '')) on a string the number pattern matched.  The
\* trailing zeros of the digits go to the exponent before the mantissa is
\* computed, so 5,000,000,000 is 5 * 10^9.
ParseFloat(s) ==
    LET c    == SelectSeq(s, LAMBDA x : x # ",")
        neg  == Head(c) = "-"
        body == IF Head(c) \in {"-", "+"} THEN Tail(c) ELSE c
        dot  == RunEnd(body, 1, Digits)
        ip   == SubSeq(body, 1, dot - 1)
        fp   == SubSeq(body, dot + 1, Len(body))
        sig  == StripZeros(ip \o fp)
        mag  == DigitsValue(sig, 0)
    IN  Dec(IF neg THEN 0 - mag ELSE mag, Len(ip) - Len(sig))

----------------------------------------------------------------------------
(* The number pattern                                                      *)
(*   [-+]?\d{1,3}(?:,\d{3})*(?:\.\d+)?|\d+(?:\.\d+)?                       *)
(* Every quantified part after the first digit is optional, and so is all  *)
(* that follows the pattern in the contextual regex, so the greedy choice  *)
(* is never backtracked.  An end of 0 means no match at p.                 *)

\* (?:,\d{3})* from q
RECURSIVE GroupsEnd(_, _)
GroupsEnd(t, q) ==
    IF q + 3 <= Len(t) /\ Ch(t, q) = "," /\ \A k \in 1..3 : Ch(t, q + k) \in Digits
    THEN GroupsEnd(t, q + 4)
    ELSE q

\* (?:\.\d+)? from q
FractionEnd(t, q) ==
    IF q + 1 <= Len(t) /\ Ch(t, q) = "." /\ Ch(t, q + 1) \in Digits
    THEN RunEnd(t, q + 1, Digits)
    ELSE q

\* [-+]?\d{1,3}(?:,\d{3})*(?:\.\d+)?
NumberAlt1End(t, p) ==
    LET s == IF p <= Len(t) /\ Ch(t, p) \in {"-", "+"} THEN p + 1 ELSE p
        r == RunEnd(t, s, Digits)
        d == IF r > s + 3 THEN s + 3 ELSE r
    IN  IF s <= Len(t) /\ Ch(t, s) \in Digits
        THEN FractionEnd(t, GroupsEnd(t, d))
        ELSE 0

\* \d+(?:\.\d+)?
NumberAlt2End(t, p) ==
    IF p <= Len(t) /\ Ch(t, p) \in Digits
    THEN FractionEnd(t, RunEnd(t, p, Digits))
    ELSE 0

NumberEnd(t, p) ==
    IF NumberAlt1End(t, p) # 0 THEN NumberAlt1End(t, p) ELSE NumberAlt2End(t, p)

\* re.findall(number pattern, text): the matched strings, left to right
RECURSIVE FindNumbers(_, _)
FindNumbers(t, p) ==
    IF p > Len(t) THEN <<>>
    ELSE LET e == NumberEnd(t, p)
         IN  IF e = 0 THEN FindNumbers(t, p + 1)
             ELSE <<SubSeq(t, p, e - 1)>> \o FindNumbers(t, e)

extract_all_numbers(t) ==
    LET found == FindNumbers(t, 1)
    IN  [k \in 1..Len(found) |-> ParseFloat(found[k])]

----------------------------------------------------------------------------
(* Scale resolver *)

\* the dict scale_factors, in insertion order
scale_factors ==
    << [word |-> "thousand", factor |-> Dec(1, 3)],
       [word |-> "million",  factor |-> Dec(1, 6)],
       [word |-> "billion",  factor |-> Dec(1, 9)],
       [word |-> "trillion", factor |-> Dec(1, 12)] >>

ScaleKeywords == {scale_factors[k].word : k \in 1..Len(scale_factors)}

\* variant: the test of line 53 without .lower()
IndicatesCaseSensitive(t, word) ==
    \/ Contains(t, "in " \o word)
    \/ Contains(t, "($" \o Ch(word, 1) \o ")")

\* the test of line 53 for one keyword
Indicates(t, word) ==
    \/ Contains(Lower(t), "in " \o word)
    \/ Contains(Lower(t), "($" \o Ch(word, 1) \o ")")

RECURSIVE ScaleLoop(_, _)
ScaleLoop(t, k) ==
    IF k > Len(scale_factors) THEN One
    ELSE IF Indicates(t, scale_factors[k].word) THEN scale_factors[k].factor
    ELSE ScaleLoop(t, k + 1)

extract_scale_factor(t) == ScaleLoop(t, 1)

----------------------------------------------------------------------------
(* Table boundary detector:  \n\s*(?:FY\s*\d{4}|Fiscal Year)\s*            *)
(* Both alternatives start with a letter, and \d{4} with a digit, so       *)
(* giving back white space taken by a \s* never turns a failure into a     *)
(* match: the greedy run is the only candidate.                            *)

BoundaryEnd(t, p) ==
    IF ~(p <= Len(t) /\ Ch(t, p) = "\n") THEN 0
    ELSE LET q == RunEnd(t, p + 1, Spaces)
             r == RunEnd(t, q + 2, Spaces)
         IN  IF /\ StartsWithAt(t, q, "FY")
                /\ r + 3 <= Len(t)
                /\ \A k \in 0..3 : Ch(t, r + k) \in Digits
             THEN RunEnd(t, r + 4, Spaces)
             ELSE IF StartsWithAt(t, q, "Fiscal Year")
             THEN RunEnd(t, q + 11, Spaces)
             ELSE 0

\* [m.start() for m in re.finditer(...)], 0-based offsets
RECURSIVE FindBoundaries(_, _)
FindBoundaries(t, p) ==
    IF p > Len(t) THEN <<>>
    ELSE LET e == BoundaryEnd(t, p)
         IN  IF e = 0 THEN FindBoundaries(t, p + 1)
             ELSE <<p - 1>> \o FindBoundaries(t, e)

detect_table_boundaries(t) == FindBoundaries(t, 1)

----------------------------------------------------------------------------
(* Contextual number extractor *)

\* One match of (number)\s*(\w+)? at p: start is m.start(), num is group 1,
\* word is group 2 (None when the group did not take part), stop the index
\* after the match.
ContextMatch(t, p) ==
    LET e  == NumberEnd(t, p)
        w  == RunEnd(t, e, Spaces)
        we == RunEnd(t, w, WordChars)
    IN  [start |-> p - 1,
         num   |-> SubSeq(t, p, e - 1),
         word  |-> IF we > w THEN SubSeq(t, w, we - 1) ELSE None,
         stop  |-> we]

RECURSIVE FindContext(_, _)
FindContext(t, p) ==
    IF p > Len(t) THEN <<>>
    ELSE IF NumberEnd(t, p) = 0 THEN FindContext(t, p + 1)
    ELSE <<ContextMatch(t, p)>> \o FindContext(t, ContextMatch(t, p).stop)

\* line 86
ContextMatches(t) == FindContext(Lower(t), 1)

\* variant: the ambient scale read from the whole page before the scan
InitialScaleFromText(t) == extract_scale_factor(t)

\* line 82
InitialScale(t) == One

\* the test of line 98
CrossesBoundary(tb, position) == tb # <<>> /\ position > Head(tb)

\* variant: the span always starts at the top of the page
ScaleSpanFromStart(t, lb, position) == Slice(t, 0, position)

\* the span of line 99
ScaleSpan(t, lb, position) == Slice(t, lb, position)

\* variant: table_boundaries.pop() drops the last pending boundary
AfterPopLast(tb) == SubSeq(tb, 1, Len(tb) - 1)

\* table_boundaries.pop(0), line 100: the value returned, and the list left
PoppedBoundary(tb) == Head(tb)
AfterPop(tb) == Tail(tb)

\* lines 105-108: the factor the trailing word contributes
InlineFactor(word) ==
    IF word \in ScaleKeywords
    THEN extract_scale_factor(word)
    ELSE IF /\ word # None
            /\ Ch(word, Len(word)) = "s"
            /\ SubSeq(word, 1, Len(word) - 1) \in ScaleKeywords
    THEN extract_scale_factor(SubSeq(word, 1, Len(word) - 1))
    ELSE One

\* scale_word or 'N/A'
WordOrNA(word) == IF word = None THEN "N/A" ELSE word

\* The body of the loop of line 88 (lines 89-110) on the locals st and one
\* match: the locals after it.  float(match.group(1)...) never raises on a
\* string the number pattern matched, so the branch of lines 91-93 is dead.
LoopBody(t, st, match) ==
    LET original_number == ParseFloat(match.num)
        scale_word      == match.word
        position        == match.start
        crosses         == CrossesBoundary(st.table_boundaries, position)
        scale           == IF crosses
                           THEN extract_scale_factor(ScaleSpan(t, st.last_boundary, position))
                           ELSE st.current_scale
        scaled_number   == Mul(Mul(original_number, scale), InlineFactor(scale_word))
    IN  [table_boundaries |-> IF crosses THEN AfterPop(st.table_boundaries)
                                         ELSE st.table_boundaries,
         current_scale    |-> scale,
         last_boundary    |-> IF crosses THEN PoppedBoundary(st.table_boundaries)
                                         ELSE st.last_boundary,
         numbers          |-> Append(st.numbers, <<original_number, scaled_number,
                                                   WordOrNA(scale_word), position>>)]

\* lines 80-83: the locals before the loop
LoopStart(t) ==
    [table_boundaries |-> detect_table_boundaries(t),
     current_scale    |-> InitialScale(t),
     last_boundary    |-> 0,
     numbers          |-> <<>>]

RECURSIVE RunLoop(_, _, _)
RunLoop(t, st, ms) ==
    IF ms = <<>> THEN st ELSE RunLoop(t, LoopBody(t, st, Head(ms)), Tail(ms))

\* the whole function, lines 80-112
extract_numbers_with_context(t) == RunLoop(t, LoopStart(t), ContextMatches(t)).numbers

----------------------------------------------------------------------------
(* Aggregator / selector.  A base entry is <<value, page>>, a record is    *)
(* <<original, scaled, word, position>>, and the dict nlp_results is the   *)
(* sequence of its items <<page, records>> in insertion order.             *)

\* variant: the running maximum also gives way to an item of equal key
ReplacesOnTie(best, item, kidx) == ~Less(item[kidx], best[kidx])

\* max() replaces the running maximum only by an item with a greater key
Replaces(best, item, kidx) == Less(best[kidx], item[kidx])

RECURSIVE MaxLoop(_, _, _)
MaxLoop(rest, best, kidx) ==
    IF rest = <<>> THEN best
    ELSE MaxLoop(Tail(rest),
                 IF Replaces(best, Head(rest), kidx) THEN Head(rest) ELSE best,
                 kidx)

\* max(seq, key=lambda x: x[kidx - 1]) on a non-empty seq
PyMax(seq, kidx) == MaxLoop(Tail(seq), Head(seq), kidx)

\* line 182
find_largest_number(nums) == IF nums # <<>> THEN PyMax(nums, 1) ELSE NoResult

\* the generator of line 196: the maximum of every non-empty page
RECURSIVE PageMaxima(_)
PageMaxima(items) ==
    IF items = <<>> THEN <<>>
    ELSE (IF Head(items)[2] # <<>> THEN <<PyMax(Head(items)[2], 2)>> ELSE <<>>)
         \o PageMaxima(Tail(items))

\* x in seq
Member(x, seq) == \E k \in 1..Len(seq) : seq[k] = x

\* variant: the last page whose list holds the record
PageOfLast(largest, items) ==
    items[CHOOSE k \in 1..Len(items) :
              /\ Member(largest, items[k][2])
              /\ \A j \in (k + 1)..Len(items) : ~Member(largest, items[j][2])][1]

\* line 198: next(page for page, numbers in nlp_results.items() if largest in numbers)
RECURSIVE PageOf(_, _)
PageOf(largest, items) ==
    IF Member(largest, Head(items)[2]) THEN Head(items)[1]
    ELSE PageOf(largest, Tail(items))

\* lines 194-200
find_largest_nlp_number(items) ==
    IF items = <<>> THEN NoResult
    ELSE LET maxima  == PageMaxima(items)
             largest == IF maxima = <<>> THEN NoResult ELSE PyMax(maxima, 2)
         IN  IF largest # NoResult
             THEN largest \o <<PageOf(largest, items)>>
             ELSE NoResult

\* str(int) for n >= 0
RECURSIVE IntStr(_)
IntStr(n) ==
    IF n < 10 THEN Ch("0123456789", n + 1)
    ELSE IntStr(n \div 10) \o Ch("0123456789", (n % 10) + 1)

\* n >= 0 written with exactly w digits
RECURSIVE Padded(_, _)
Padded(n, w) == IF w = 0 THEN "" ELSE Padded(n \div 10, w - 1) \o Ch("0123456789", (n % 10) + 1)

\* str(x) of a float below 1e16 in magnitude: digits, a point, digits
FloatStr(d) ==
    LET mag  == IF d.m < 0 THEN 0 - d.m ELSE d.m
        sign == IF d.m < 0 THEN "-" ELSE ""
    IN  IF d.e >= 0
        THEN sign \o IntStr(mag * Pow10(d.e)) \o ".0"
        ELSE sign \o IntStr(mag \div Pow10(0 - d.e)) \o "."
                  \o Padded(mag % Pow10(0 - d.e), 0 - d.e)

\* key=lambda x: float(str(x[kidx - 1]))
SortKey(x, kidx) == ParseFloat(FloatStr(x[kidx]))

\* variant: an item of equal key goes in front of the ones already placed
ComesBeforeStrict(placed, item) == Less(item[1], placed[1])

\* sorted(..., key=..., reverse=True) computes every key once and keeps items
\* of equal key in their input order: an item goes behind every item already
\* placed whose key is not smaller.  The sort works on <<key, item>> pairs.
ComesBefore(placed, item) == ~Less(placed[1], item[1])

RECURSIVE InsertDesc(_, _)
InsertDesc(sorted, item) ==
    IF sorted # <<>> /\ ComesBefore(Head(sorted), item)
    THEN <<Head(sorted)>> \o InsertDesc(Tail(sorted), item)
    ELSE <<item>> \o sorted

RECURSIVE SortLoop(_, _)
SortLoop(rest, sorted) ==
    IF rest = <<>> THEN sorted
    ELSE SortLoop(Tail(rest), InsertDesc(sorted, Head(rest)))

SortedDesc(seq, kidx) ==
    LET keyed  == [k \in 1..Len(seq) |-> <<SortKey(seq[k], kidx), seq[k]>>]
        sorted == SortLoop(keyed, <<>>)
    IN  [k \in 1..Len(seq) |-> sorted[k][2]]

\* the slice bound of lines 154 and 165
TopN == 10

\* seq[:TopN]
TopSlice(seq) == SubSeq(seq, 1, IF Len(seq) < TopN THEN Len(seq) ELSE TopN)

\* lines 161-163: (original, scaled, word, position, page) for every record
RECURSIVE Flatten(_)
Flatten(items) ==
    IF items = <<>> THEN <<>>
    ELSE [k \in 1..Len(Head(items)[2]) |-> Head(items)[2][k] \o <<Head(items)[1]>>]
         \o Flatten(Tail(items))

\* the rows of line 154
TopBase(nums) == TopSlice(SortedDesc(nums, 1))

\* the rows of line 165
TopNlp(items) == TopSlice(SortedDesc(Flatten(items), 2))

----------------------------------------------------------------------------
(* Page texts: up to MaxTokens fragments put one after the other, or the   *)
(* scenario text of the two-literal page.                                  *)

MaxTokens == 3

Tokens ==
    { "\nFiscal Year:",   \* a table boundary
      "\n FY 2024:",      \* a table boundary holding the literal 202 and the word 4
      "IN MILLIONS ",
      "in billions ",
      "1",
      "7 million",
      "s",
      ",000",
      ".5",
      "-",
      " " }

ScenarioText == "Revenue in millions\n100 (net) \n150.5"

InitScan ==
    /\ text = ""
    /\ ntok = 0
    /\ pc = "input"
    /\ table_boundaries = <<>>
    /\ current_scale = One
    /\ last_boundary = 0
    /\ matches = <<>>
    /\ i = 0
    /\ numbers = <<>>
    /\ scales = <<>>
    /\ consumed = <<>>
    /\ factor = None

InitAgg ==
    /\ page_num = 0
    /\ base_numbers = <<>>
    /\ nlp_results = <<>>
    /\ agg_pc = "build"
    /\ largest_base = NoResult
    /\ largest_nlp = NoResult
    /\ top_base = <<>>
    /\ top_nlp = <<>>

Init == InitScan /\ InitAgg

\* the caller puts one more fragment on the page text
AppendToken(tok) ==
    /\ pc = "input"
    /\ ntok < MaxTokens
    /\ text' = text \o tok
    /\ ntok' = ntok + 1
    /\ UNCHANGED <<pc, table_boundaries, current_scale, last_boundary, matches, i,
                   numbers, scales, consumed, factor>>
    /\ UNCHANGED agg_vars

\* the caller hands over the scenario page
LoadScenario ==
    /\ pc = "input"
    /\ ntok = 0
    /\ text' = ScenarioText
    /\ pc' = "ready"
    /\ UNCHANGED <<ntok, table_boundaries, current_scale, last_boundary, matches, i,
                   numbers, scales, consumed, factor>>
    /\ UNCHANGED agg_vars

\* extract_numbers_with_context, lines 80-86
Begin ==
    /\ pc \in {"input", "ready"}
    /\ numbers' = LoopStart(text).numbers
    /\ table_boundaries' = LoopStart(text).table_boundaries
    /\ current_scale' = LoopStart(text).current_scale
    /\ last_boundary' = LoopStart(text).last_boundary
    /\ matches' = ContextMatches(text)
    /\ i' = 0
    /\ pc' = "loop"
    /\ UNCHANGED <<text, ntok, scales, consumed, factor>>
    /\ UNCHANGED agg_vars

\* one iteration of the loop of line 88, lines 89-110
ProcessMatch ==
    /\ pc = "loop"
    /\ i < Len(matches)
    /\ LET st    == [table_boundaries |-> table_boundaries,
                     current_scale    |-> current_scale,
                     last_boundary    |-> last_boundary,
                     numbers          |-> numbers]
           after == LoopBody(text, st, matches[i + 1])
       IN  /\ table_boundaries' = after.table_boundaries
           /\ current_scale' = after.current_scale
           /\ last_boundary' = after.last_boundary
           /\ numbers' = after.numbers
           /\ scales' = Append(scales, after.current_scale)
           /\ consumed' = IF Len(after.table_boundaries) < Len(table_boundaries)
                          THEN Append(consumed, [boundary |-> after.last_boundary,
                                                 position |-> matches[i + 1].start])
                          ELSE consumed
    /\ i' = i + 1
    /\ UNCHANGED <<text, ntok, pc, matches, factor>>
    /\ UNCHANGED agg_vars

\* line 112
Return ==
    /\ pc = "loop"
    /\ i = Len(matches)
    /\ pc' = "done"
    /\ UNCHANGED <<text, ntok, table_boundaries, current_scale, last_boundary, matches,
                   i, numbers, scales, consumed, factor>>
    /\ UNCHANGED agg_vars

Next ==
    \/ \E tok \in Tokens : AppendToken(tok)
    \/ LoadScenario
    \/ Begin
    \/ ProcessMatch
    \/ Return

Spec == Init /\ [][Next]_vars

----------------------------------------------------------------------------
(* Documents.  process_pdf reads up to MaxPages pages, each holding one    *)
(* of the page texts; a page mapping can also be put together item by      *)
(* item, which reaches the mappings process_pdf never makes (a page with   *)
(* an empty list, pages out of order).                                     *)

MaxPages == 11
MaxSelRecords == 3

\* 999.99 and 1,000.00
PageTexts == {"999.99", "1,000.00"}

SelPages == {1, 2, 3}

RecLow == <<Dec(1, 0), Dec(1, 0), "N/A", 0>>
RecHigh == <<Dec(2, 0), Dec(2, 0), "N/A", 0>>
RecHighToo == <<Dec(2, -6), Dec(2, 0), "million", 4>>

SelRecords == {RecLow, RecHigh, RecHighToo}

RECURSIVE RecordCount(_)
RecordCount(items) ==
    IF items = <<>> THEN 0 ELSE Len(Head(items)[2]) + RecordCount(Tail(items))

\* process_pdf, lines 130-139: one more page of the document
ReadPage(t) ==
    /\ agg_pc = "build"
    /\ page_num < MaxPages
    /\ page_num' = page_num + 1
    /\ base_numbers' = base_numbers \o
            [k \in 1..Len(extract_all_numbers(t)) |->
                <<extract_all_numbers(t)[k], page_num + 1>>]
    /\ nlp_results' = IF extract_numbers_with_context(t) # <<>>
                      THEN Append(nlp_results,
                                  <<page_num + 1, extract_numbers_with_context(t)>>)
                      ELSE nlp_results
    /\ UNCHANGED <<agg_pc, largest_base, largest_nlp, top_base, top_nlp>>
    /\ UNCHANGED scan_vars

\* a new key of a page mapping, with an empty list
NewPage(pg) ==
    /\ agg_pc = "build"
    /\ \A k \in 1..Len(nlp_results) : nlp_results[k][1] # pg
    /\ nlp_results' = Append(nlp_results, <<pg, <<>>>>)
    /\ UNCHANGED <<page_num, base_numbers, agg_pc, largest_base, largest_nlp, top_base,
                   top_nlp>>
    /\ UNCHANGED scan_vars

\* one more record in the list of the page added last
AddRecord(r) ==
    /\ agg_pc = "build"
    /\ nlp_results # <<>>
    /\ RecordCount(nlp_results) < MaxSelRecords
    /\ nlp_results' = [nlp_results EXCEPT ![Len(nlp_results)] =
                            <<@[1], Append(@[2], r)>>]
    /\ UNCHANGED <<page_num, base_numbers, agg_pc, largest_base, largest_nlp, top_base,
                   top_nlp>>
    /\ UNCHANGED scan_vars

\* main, lines 236-254: the two selections and the two tables
Main ==
    /\ agg_pc = "build"
    /\ largest_base' = find_largest_number(base_numbers)
    /\ largest_nlp' = find_largest_nlp_number(nlp_results)
    /\ top_base' = TopBase(base_numbers)
    /\ top_nlp' = TopNlp(nlp_results)
    /\ agg_pc' = "done"
    /\ UNCHANGED <<page_num, base_numbers, nlp_results>>
    /\ UNCHANGED scan_vars

NextTop ==
    \/ \E t \in PageTexts : ReadPage(t)
    \/ Main

SpecTop == Init /\ [][NextTop]_vars

NextSelect ==
    \/ \E pg \in SelPages : NewPage(pg)
    \/ \E r \in SelRecords : AddRecord(r)
    \/ Main

SpecSelect == Init /\ [][NextSelect]_vars

----------------------------------------------------------------------------
(* Scale resolver runs: a fragment of up to MaxFragments pieces is handed  *)
(* to extract_scale_factor.                                                *)

MaxFragments == 3

ScalePieces ==
    { "in thousands", "In Millions", "IN BILLIONS", "Trillion",
      "($T)", "($m)", "($B)", "in ", "x" }

AppendPiece(piece) ==
    /\ pc = "input"
    /\ ntok < MaxFragments
    /\ text' = text \o piece
    /\ ntok' = ntok + 1
    /\ UNCHANGED <<pc, table_boundaries, current_scale, last_boundary, matches, i,
                   numbers, scales, consumed, factor>>
    /\ UNCHANGED agg_vars

\* extract_scale_factor(text), lines 44-55
Resolve ==
    /\ pc = "input"
    /\ factor' = extract_scale_factor(text)
    /\ pc' = "resolved"
    /\ UNCHANGED <<text, ntok, table_boundaries, current_scale, last_boundary, matches,
                   i, numbers, scales, consumed>>
    /\ UNCHANGED agg_vars

NextScale ==
    \/ \E piece \in ScalePieces : AppendPiece(piece)
    \/ Resolve

SpecScale == Init /\ [][NextScale]_vars

----------------------------------------------------------------------------
(* Properties *)

\* the four keywords in the order of the table, and the power of ten of each
Keyword(k) == <<"thousand", "million", "billion", "trillion">>[k]
KeywordFactor(k) == Dec(1, 3 * k)

\* the word of a record is keyword k, or keyword k and an "s"
IsKeywordWord(w, k) == w = Keyword(k) \/ w = Keyword(k) \o "s"

\* C1: every record whose trailing word is thousand, million, billion or
\* trillion (or one of them and an "s") has scaled = original * currentScale *
\* that keyword's factor; so "million" under the ambient scale 1e9 gives
\* original * 1e9 * 1e6, and under the ambient scale 1 gives original * 1e6.
C1_InlineKeywordMultiplies ==
    \A k \in 1..Len(numbers) : \A j \in 1..4 :
        IsKeywordWord(numbers[k][3], j) =>
            numbers[k][2] = Mul(Mul(numbers[k][1], scales[k]), KeywordFactor(j))

\* what a finished scan returned, without the positions
Returned == [k \in 1..Len(numbers) |-> <<numbers[k][1], numbers[k][2], numbers[k][3]>>]

ScenarioDone == pc = "done" /\ text = ScenarioText

\* C2 (as claimed): on the scenario text the scan returns (100.0, 1.0e8, "N/A")
\* and (150.5, 1.505e8, "N/A"): "in millions" is applied as ambient scale 1e6.
C2_ScenarioScaledByMillions ==
    ScenarioDone =>
        Returned = << <<Dec(100, 0), Dec(1, 8), "N/A">>,
                      <<Dec(1505, -1), Dec(1505, 5), "N/A">> >>

\* C2 (amended): the scenario text has no table boundary, and the scan returns
\* exactly the two records (100.0, 100.0, "N/A") at offset 20 and
\* (150.5, 150.5, "N/A") at offset 31: the ambient scale stays 1.
C2_ScenarioUnscaled ==
    ScenarioDone =>
        /\ detect_table_boundaries(text) = <<>>
        /\ numbers = << <<Dec(100, 0), Dec(100, 0), "N/A", 20>>,
                        <<Dec(1505, -1), Dec(1505, -1), "N/A", 31>> >>

C2_Witness == ScenarioDone /\ Len(numbers) = 2

\* C3: a finished scan has made exactly one record per literal the base
\* extractor finds in the same text, in the same order.
C3_OneRecordPerLiteral ==
    pc = "done" =>
        [k \in 1..Len(numbers) |-> numbers[k][1]] = extract_all_numbers(text)

\* the number of pops of boundary b
TimesConsumed(b) == Cardinality({k \in 1..Len(consumed) : consumed[k].boundary = b})

\* C4: when the scan ends, every detected boundary that lies before the start
\* of some match has been consumed exactly once, by a match that starts after it.
C4_EveryPassedBoundaryConsumedOnce ==
    pc = "done" =>
        \A n \in 1..Len(detect_table_boundaries(text)) :
            LET b == detect_table_boundaries(text)[n]
            IN  (\E k \in 1..Len(matches) : matches[k].start > b) =>
                    /\ TimesConsumed(b) = 1
                    /\ \A k \in 1..Len(consumed) :
                           consumed[k].boundary = b => consumed[k].position > b

\* some indicator of keyword k ("in <keyword>" or "($<first letter>)") occurs
\* in the lower-cased text
HasIndicator(t, k) ==
    \/ Contains(Lower(t), "in " \o Keyword(k))
    \/ Contains(Lower(t), "($" \o Ch(Keyword(k), 1) \o ")")

Entry(items, p, r) == items[p][2][r] \o <<items[p][1]>>

\* <<p, r>> comes before <<p2, r2>> in page-insertion order, then in-page order
Earlier(p, r, p2, r2) == p < p2 \/ (p = p2 /\ r < r2)

\* every <<item, record>> index pair of a page mapping
Slots(items) == UNION {{<<p, r>> : r \in 1..Len(items[p][2])} : p \in 1..Len(items)}

\* C6: find_largest_nlp_number returns None when the mapping is empty or every
\* list is empty; otherwise the record with the maximum scaled value, the first
\* such in page-insertion order and then in-page order, followed by the page
\* whose list it came from.
C6_LargestNlpIsFirstMaximum ==
    agg_pc = "done" =>
        IF Slots(nlp_results) = {}
        THEN largest_nlp = NoResult
        ELSE \E pr \in Slots(nlp_results) :
                /\ largest_nlp = Entry(nlp_results, pr[1], pr[2])
                /\ \A qs \in Slots(nlp_results) :
                      /\ ~Less(largest_nlp[2], Entry(nlp_results, qs[1], qs[2])[2])
                      /\ Earlier(qs[1], qs[2], pr[1], pr[2])
                            => Less(Entry(nlp_results, qs[1], qs[2])[2], largest_nlp[2])

\* the maximum record occurs, as an equal tuple, on two pages
C6_Witness ==
    /\ agg_pc = "done"
    /\ Len(nlp_results) = 3
    /\ nlp_results[1][2] = <<RecLow>>
    /\ nlp_results[2][2] = <<RecHighToo>>
    /\ nlp_results[3][2] = <<RecHighToo>>
    /\ largest_nlp = RecHighToo \o <<nlp_results[2][1]>>

TwoPageScenario == << <<Dec(99999, -2), 1>>, <<Dec(1, 3), 2>> >>

\* C7: find_largest_number returns None for an empty list, otherwise the
\* <<value, page>> pair of maximum value, the first one in input order on ties;
\* for page 1 holding 999.99 and page 2 holding 1000.00 it returns (1000.00, 2).
C7_LargestBaseIsFirstMaximum ==
    agg_pc = "done" =>
        /\ base_numbers = <<>> => largest_base = NoResult
        /\ base_numbers # <<>> =>
              \E k \in 1..Len(base_numbers) :
                 /\ largest_base = base_numbers[k]
                 /\ \A j \in 1..Len(base_numbers) :
                       /\ ~Less(largest_base[1], base_numbers[j][1])
                       /\ j < k => Less(base_numbers[j][1], largest_base[1])
        /\ base_numbers = TwoPageScenario => largest_base = <<Dec(1, 3), 2>>

C7_Witness ==
    /\ agg_pc = "done"
    /\ Len(base_numbers) = 3
    /\ SubSeq(base_numbers, 1, 2) = TwoPageScenario
    /\ base_numbers[3][1] = Dec(1, 3)
    /\ largest_base = <<Dec(1, 3), 2>>

\* the entries of seq whose key (field kidx) is v, in their order in seq
WithKey(seq, kidx, v) == SelectSeq(seq, LAMBDA x : x[kidx] = v)

IsPrefix(a, b) == Len(a) <= Len(b) /\ SubSeq(b, 1, Len(a)) = a

\* out is the top-10 selection of inp by the key in field kidx
IsTopSelection(out, inp, kidx) ==
    /\ Len(out) = (IF Len(inp) < 10 THEN Len(inp) ELSE 10)
    /\ \A j \in 1..(Len(out) - 1) : ~Less(out[j][kidx], out[j + 1][kidx])
    /\ \A j \in 1..Len(inp) :
          IsPrefix(WithKey(out, kidx, inp[j][kidx]), WithKey(inp, kidx, inp[j][kidx]))
    /\ \A j \in 1..Len(out) : \E n \in 1..Len(inp) : inp[n] = out[j]
    /\ \A j \in 1..Len(inp) : \A n \in 1..Len(out) :
          Less(out[n][kidx], inp[j][kidx])
              => WithKey(out, kidx, inp[j][kidx]) = WithKey(inp, kidx, inp[j][kidx])

\* C8: both tables hold min(10, n) of the n input entries, in non-increasing
\* key order, entries of equal key in their input order, each a distinct input
\* entry, and no entry left out has a key greater than one selected.
C8_TopTenSelection ==
    agg_pc = "done" =>
        /\ IsTopSelection(top_base, base_numbers, 1)
        /\ IsTopSelection(top_nlp, Flatten(nlp_results), 2)

C8_Witness ==
    /\ agg_pc = "done"
    /\ Len(base_numbers) = 11
    /\ Len(top_base) = 10
    /\ Len(top_nlp) = 10
    /\ base_numbers[1][1] = Dec(99999, -2)
    /\ base_numbers[2][1] = Dec(1, 3)
    /\ base_numbers[11][1] = Dec(1, 3)
    /\ top_base[1] = base_numbers[2]

\* the step is one iteration of the loop
IsLoopStep == pc = "loop" /\ i' = i + 1

Ascending(seq) == \A k \in 1..(Len(seq) - 1) : seq[k] < seq[k + 1]

\* C9: a match consumes at most one pending boundary, the smallest pending one,
\* and only if it starts strictly after it; boundaries are consumed in
\* ascending order, none twice, never more of them than matches processed,
\* and lastBoundary never decreases.
C9_OneBoundaryPerMatch ==
    [][ /\ last_boundary' >= last_boundary
        /\ IsLoopStep =>
              /\ \/ /\ table_boundaries' = table_boundaries
                    /\ consumed' = consumed
                 \/ /\ table_boundaries # <<>>
                    /\ table_boundaries' = Tail(table_boundaries)
                    /\ \A k \in 1..Len(table_boundaries) :
                          Head(table_boundaries) <= table_boundaries[k]
                    /\ matches[i + 1].start > Head(table_boundaries)
                    /\ consumed' = Append(consumed,
                                          [boundary |-> Head(table_boundaries),
                                           position |-> matches[i + 1].start])
              /\ Ascending([k \in 1..Len(consumed') |-> consumed'[k].boundary])
              /\ Len(consumed') <= i'
      ]_vars

C9_Witness ==
    /\ pc = "done"
    /\ Len(consumed) = 2
    /\ Len(matches) = 3
    /\ table_boundaries = <<>>

\* C10: currentScale starts at 1 and lastBoundary at 0; a match that consumes
\* no boundary leaves both unchanged; a match that consumes one sets
\* currentScale to the resolver's result on text[lastBoundary:position] and
\* lastBoundary to the consumed offset; on a page without boundaries every
\* record is made under currentScale 1.
C10_ScaleChangesOnlyAtBoundaries ==
    [][ /\ (pc # "loop" /\ pc' = "loop") => (current_scale' = One /\ last_boundary' = 0)
        /\ IsLoopStep =>
              /\ IF Len(table_boundaries') < Len(table_boundaries)
                 THEN /\ current_scale' = extract_scale_factor(
                              Slice(text, last_boundary, matches[i + 1].start))
                      /\ last_boundary' = Head(table_boundaries)
                 ELSE /\ current_scale' = current_scale
                      /\ last_boundary' = last_boundary
              /\ detect_table_boundaries(text) = <<>> =>
                    \A k \in 1..Len(scales') : scales'[k] = One
      ]_vars

C10_Witness ==
    /\ pc = "done"
    /\ Len(consumed) = 2
    /\ scales = <<Dec(1, 6), One>>
    /\ last_boundary = consumed[2].boundary

====
